---- MODULE Spec2Model ----
(***************************************************************************)
(* Model of the solver/dispatch engine of QuantVisualizer.py: the three    *)
(* solvers InfSqWell, FinSqWell, ParabSqWell and the dispatcher simulate,  *)
(* acting on one quantsim object (sys, sim_params, soln, prob_dens).       *)
(*                                                                         *)
(* Numbers.  Parameters are small integers.  A real value the code         *)
(* computes is kept exactly, as a pair <<p, q>>: the rational p/q in       *)
(* lowest terms with q > 0, or, with q = 0, the IEEE values the numpy      *)
(* float arithmetic yields instead of raising: <<1,0>> = +inf,             *)
(* <<-1,0>> = -inf, <<0,0>> = nan.  Rounding is not modelled.              *)
(* Energies of the square well are kept in units of pi^2.  An amplitude    *)
(* sample, which is a value of sin or of a Hermite function, is kept as    *)
(* the term the code evaluates (a record naming the function and its       *)
(* exact arguments).                                                       *)
(*                                                                         *)
(* Optional values.  An attribute or dictionary key that may be missing    *)
(* or None is a record [st, v]: st = "absent" (never set), "none"          *)
(* (Python None) or "set" with the value v.                                *)
(***************************************************************************)
EXTENDS Integers, Sequences, FiniteSets, TLC

\* module-level constant of QuantVisualizer.py
hbar == 1

\* bounds of the inputs explored
MaxLength == 3
MaxMass == 2
MaxDx == 2
MaxK == 1
MaxModes == 10
\* bounds of the inputs a caller re-dispatches with (specification Spec)
MaxSessLength == 2
MaxSessDx == 1
MaxSessModes == 1

----------------------------------------------------------------------------
(* exact arithmetic *)

Abs(a) == IF a < 0 THEN 0 - a ELSE a

Sgn(a) == IF a < 0 THEN 0 - 1 ELSE IF a = 0 THEN 0 ELSE 1

RECURSIVE GCD(_, _)
GCD(a, b) == IF b = 0 THEN a ELSE GCD(b, a % b)

\* the value p/q as the float division p/q gives it (q = 0: inf or nan)
Rat(p, q) ==
    IF q = 0 THEN <<Sgn(p), 0>>
    ELSE LET g == GCD(Abs(p), Abs(q))
         IN  <<Sgn(q) * (p \div g), Abs(q) \div g>>

IsFinite(a) == a[2] # 0

IsNan(a) == a = <<0, 0>>

\* a < b as IEEE comparison gives it (false when either side is nan)
RatLess(a, b) ==
    IF IsNan(a) \/ IsNan(b) THEN FALSE
    ELSE IF IsFinite(a) /\ IsFinite(b) THEN a[1] * b[2] < b[1] * a[2]
    ELSE IF IsFinite(a) THEN b[1] > 0
    ELSE IF IsFinite(b) THEN a[1] < 0
    ELSE a[1] < b[1]

RatMul(a, b) ==
    IF IsFinite(a) /\ IsFinite(b) THEN Rat(a[1] * b[1], a[2] * b[2])
    ELSE IF IsNan(a) \/ IsNan(b) \/ a[1] = 0 \/ b[1] = 0 THEN <<0, 0>>
    ELSE <<Sgn(a[1]) * Sgn(b[1]), 0>>

\* int(p/q), q # 0: truncation toward zero
Trunc(p, q) == Sgn(p) * Sgn(q) * (Abs(p) \div Abs(q))

\* ceil(p/q), q > 0
Ceil(p, q) == 0 - ((0 - p) \div q)

----------------------------------------------------------------------------
(* optional values *)

Absent == [st |-> "absent", v |-> <<>>]

None == [st |-> "none", v |-> <<>>]

Some(x) == [st |-> "set", v |-> x]

----------------------------------------------------------------------------
(* the numpy calls the solvers make *)

\* linspace as it would be with endpoint=False: num steps of stop/num
linspace_noEndpoint(stop, num) ==
    [i \in 1..num |-> Rat((i - 1) * stop, num)]

\* np.linspace(0, stop, num) for an integer num >= 0: endpoint included
linspace(stop, num) ==
    IF num = 1 THEN << Rat(0, 1) >>
    ELSE [i \in 1..num |-> Rat((i - 1) * stop, num - 1)]

\* len(np.arange(start, stop, step)), step # 0
arange_len(start, stop, step) ==
    LET c == IF step > 0 THEN Ceil(stop - start, step)
             ELSE Ceil(start - stop, 0 - step)
    IN  IF c > 0 THEN c ELSE 0

\* arange as it would be with the last element dropped
arange_short(start, stop, step) ==
    [i \in 1..arange_len(start, stop - step, step) |-> start + (i - 1) * step]

\* np.arange(start, stop, step), step # 0
arange(start, stop, step) ==
    [i \in 1..arange_len(start, stop, step) |-> start + (i - 1) * step]

\* np.power(wfn_ampl, 2): elementwise square of an array of amplitude terms
power2(wfn_ampl) == [j \in DOMAIN wfn_ampl |-> [sq |-> wfn_ampl[j]]]

\* an amplitude sample that is nan
NanTerm == [f |-> "nan", c |-> <<>>, t |-> <<0, 0>>]

\* np.sqrt(L/2) * np.sin(kn * x), with t = kn * x in units of pi
SinTerm(L, t) ==
    IF L < 0 \/ ~IsFinite(t) THEN NanTerm
    ELSE [f |-> "sqrt(L/2)*sin(pi*t)", c |-> <<L>>, t |-> t]

----------------------------------------------------------------------------
(* the alias lists of simulate, lines 139, 145, 149 *)

ISW == {"1", "Infinite Square Well", "ISW"}

FSW == {"2", "Finite Square Well", "FSW"}

QHO == {"3", "Quantum Harmonic Oscillator", "QHO"}

----------------------------------------------------------------------------
(* the solvers.  A solver takes the quantsim object q = [sys, sim_params]  *)
(* and gives [exc, sim_params, wrote, wfn_solns, prob_densities]: the      *)
(* exception it raised ("none": it returned), the dictionary as it left    *)
(* it, the keys it assigned, and the two lists it returned.                *)

Raise(q, e) ==
    [exc |-> e, sim_params |-> q.sim_params, wrote |-> {},
     wfn_solns |-> <<>>, prob_densities |-> <<>>]

\* the loop as it would be if every density were taken from the first mode
InfSqWellModes_firstDensity(L, m, x_vals, n_array) ==
    LET wfn(n) == LET kn == Rat(n, L)
                  IN  [j \in DOMAIN x_vals |-> SinTerm(L, RatMul(kn, x_vals[j]))]
    IN  [wfn_solns      |-> [i \in DOMAIN n_array |-> wfn(n_array[i])],
         prob_densities |-> [i \in DOMAIN n_array |-> power2(wfn(n_array[1]))],
         energy_levels  |-> [i \in DOMAIN n_array |->
                               Rat((n_array[i] * hbar) * (n_array[i] * hbar),
                                   2 * m * L * L)]]

\* lines 56-61: the three lists after the loop over n_array = 1..num_of_wfns
InfSqWellModes(L, m, x_vals, n_array) ==
    LET wfn(n) == LET kn == Rat(n, L)
                  IN  [j \in DOMAIN x_vals |-> SinTerm(L, RatMul(kn, x_vals[j]))]
    IN  [wfn_solns      |-> [i \in DOMAIN n_array |-> wfn(n_array[i])],
         prob_densities |-> [i \in DOMAIN n_array |-> power2(wfn(n_array[i]))],
         energy_levels  |-> [i \in DOMAIN n_array |->
                               Rat((n_array[i] * hbar) * (n_array[i] * hbar),
                                   2 * m * L * L)]]

\* the save as it would be if the energies were not stored
SaveInfSqWell_gridOnly(q, x_vals, energy_levels) ==
    [sim_params |-> [q.sim_params EXCEPT !.x_vals = Some(x_vals)],
     wrote |-> {"x_vals"}]

\* lines 63-65: save useful arrays in sim_param dict
SaveInfSqWell(q, x_vals, energy_levels) ==
    [sim_params |-> [q.sim_params EXCEPT !.x_vals = Some(x_vals),
                                         !.E_array = Some(energy_levels)],
     wrote |-> {"x_vals", "E_array"}]

InfSqWell(q, np) ==
    LET L  == q.sim_params.length
        m  == q.sim_params.mass
        dx == q.sim_params.dx
        num_of_wfns == q.sim_params.num_modes
    IN  IF dx = 0 THEN Raise(q, "ZeroDivisionError")
        ELSE IF np # "numpy<1.18" THEN Raise(q, "TypeError")
        ELSE IF Trunc(L + dx, dx) < 0 THEN Raise(q, "ValueError")
        ELSE
          LET x_vals  == linspace(L, Trunc(L + dx, dx))
              n_array == arange(1, num_of_wfns + 1, 1)
              r       == InfSqWellModes(L, m, x_vals, n_array)
              saved   == SaveInfSqWell(q, x_vals, r.energy_levels)
          IN  [exc |-> "none",
               sim_params |-> saved.sim_params,
               wrote |-> saved.wrote,
               wfn_solns |-> r.wfn_solns,
               prob_densities |-> r.prob_densities]

\* FinSqWell returns None and touches nothing
FinSqWell(q) == None

\* an amplitude sample that is 0
ZeroTerm == [f |-> "0", c |-> <<>>, t |-> <<0, 1>>]

\* alpha * exp_decay * hermite(x, n) at one grid point x, for w = sqrt(wr):
\* nan when w is nan (wr < 0) or m*w < 0, 0 when w = 0 (alpha = 0)
HermiteTerm(n, m, k, wr, x) ==
    IF wr[1] < 0 THEN NanTerm
    ELSE IF wr[1] = 0 THEN ZeroTerm
    ELSE IF m < 0 THEN NanTerm
    ELSE [f |-> "alpha_n*exp(-x^2*m*w/2)*H_n(sqrt(m*w)*x)", c |-> <<n, m, k>>,
          t |-> Rat(x, 1)]

\* the energy as it would be if every mode got the ground-state value
OscEnergy_ground(n, wr) ==
    IF wr[1] <= 0 THEN <<0, 0>> ELSE Rat(hbar, 2)

\* lines 96 and 118: ((n + 0.5) * hbar * w) / w, for w = sqrt(wr)
OscEnergy(n, wr) ==
    IF wr[1] <= 0 THEN <<0, 0>> ELSE Rat((2 * n + 1) * hbar, 2)

\* lines 99-114: the two lists after the loop over n_array = 0..num_of_wfns
ParabSqWellModes(m, k, wr, x_vals, n_array) ==
    LET wfn(n) == [j \in DOMAIN x_vals |-> HermiteTerm(n, m, k, wr, x_vals[j])]
    IN  [wfn_solns      |-> [i \in DOMAIN n_array |-> wfn(n_array[i])],
         prob_densities |-> [i \in DOMAIN n_array |-> power2(wfn(n_array[i]))]]

\* lines 116-119: save useful arrays in sim_param dict
SaveParabSqWell(q, x_vals, E_array, wr) ==
    [sim_params |-> [q.sim_params EXCEPT
                       !.x_vals = Some([j \in DOMAIN x_vals |-> Rat(x_vals[j], 1)]),
                       !.E_array = Some(E_array),
                       !.ang_freq = Some(wr)],
     wrote |-> {"x_vals", "E_array", "ang_freq"}]

ParabSqWell(q, np) ==
    LET L  == q.sim_params.length
        m  == q.sim_params.mass
        k  == q.sim_params.force_constant_k
        dx == q.sim_params.dx
        num_of_wfns == q.sim_params.num_modes
        n_array == arange(0, num_of_wfns + 1, 1)
    IN  IF dx = 0 \/ m = 0 THEN Raise(q, "ZeroDivisionError")
        ELSE IF np = "numpy>=2" /\ n_array # <<>> THEN Raise(q, "AttributeError")
        ELSE
          LET x_vals  == arange(0 - L, L, dx)
              wr      == Rat(k, m)
              E_array == [i \in DOMAIN n_array |-> OscEnergy(n_array[i], wr)]
              r       == ParabSqWellModes(m, k, wr, x_vals, n_array)
              saved   == SaveParabSqWell(q, x_vals, E_array, wr)
          IN  [exc |-> "none",
               sim_params |-> saved.sim_params,
               wrote |-> saved.wrote,
               wfn_solns |-> r.wfn_solns,
               prob_densities |-> r.prob_densities]

----------------------------------------------------------------------------
(* the state *)

VARIABLES
    numpy,        \* the numpy release the process runs on
    sys,          \* quantsim.sys
    sim_params,   \* quantsim.sim_params
    soln,         \* quantsim.soln
    prob_dens,    \* quantsim.prob_dens
    outcome,      \* "pending": parameters set, simulate not yet called on them;
                  \* else how the last simulate call ended: "returned" or the
                  \* name of the exception that left it
    stdout,       \* what the last simulate call printed
    wrote,        \* history: the names the solver, and the names the dispatcher,
                  \* assigned during the last simulate call
    origin        \* history: for each result field, which call last assigned it:
                  \* "never", "last" (the latest call that assigned any result
                  \* field) or "earlier" (a call before that one)

vars == <<numpy, sys, sim_params, soln, prob_dens, outcome, stdout, wrote, origin>>

\* identifiers in none of the alias lists
Unknown == {"nonexistent", "finite well"}

Systems == ISW \cup FSW \cup QHO \cup Unknown

NumpyReleases == {"numpy<1.18", "numpy<2", "numpy>=2"}

ResultFields == {"soln", "prob_dens", "x_vals", "E_array"}

\* a quantsim object as its constructor leaves it: parameters, no results
NewParams(L, m, dx, k, nm) ==
    [length |-> L, mass |-> m, dx |-> dx, force_constant_k |-> k, num_modes |-> nm,
     x_vals |-> Absent, E_array |-> Absent, ang_freq |-> Absent]

InitWith(Ls, ms, dxs, ks, nms) ==
    /\ numpy \in NumpyReleases
    /\ sys \in Systems
    /\ \E L \in Ls, m \in ms, dx \in dxs, k \in ks, nm \in nms :
           sim_params = NewParams(L, m, dx, k, nm)
    /\ soln = Absent
    /\ prob_dens = Absent
    /\ outcome = "pending"
    /\ stdout = ""
    /\ wrote = [solver |-> {}, dispatcher |-> {}]
    /\ origin = [f \in ResultFields |-> "never"]

----------------------------------------------------------------------------
(* the dispatcher *)

\* What simulate(quantsim) gives on q = [sys, sim_params, soln, prob_dens]: the
\* object as the call leaves it, the exception that left it ("none": it
\* returned), what it printed, and the names the solver and the dispatcher
\* assigned.

\* lines 140-142 and 150-152: unpack the solver's pair into soln and prob_dens
StoreSolution(q, r) ==
    IF r.exc # "none"
    THEN [sim_params |-> r.sim_params, soln |-> q.soln, prob_dens |-> q.prob_dens,
          exc |-> r.exc, out |-> "", solver |-> r.wrote, dispatcher |-> {}]
    ELSE [sim_params |-> r.sim_params, soln |-> Some(r.wfn_solns),
          prob_dens |-> Some(r.prob_densities),
          exc |-> "none", out |-> "", solver |-> r.wrote,
          dispatcher |-> {"soln", "prob_dens"}]

\* lines 145-147: quantsim.soln = FinSqWell(quantsim)
StoreFinSqWell(q) ==
    [sim_params |-> q.sim_params, soln |-> FinSqWell(q), prob_dens |-> q.prob_dens,
     exc |-> "none", out |-> "", solver |-> {}, dispatcher |-> {"soln"}]

\* the else branch as it would be if it also reset the solution
SystemNotFound_resets(q) ==
    [sim_params |-> q.sim_params, soln |-> None, prob_dens |-> q.prob_dens,
     exc |-> "none", out |-> "\nSystem not found. Please reinitialize object.\n",
     solver |-> {}, dispatcher |-> {"soln"}]

\* lines 154-155: the else branch prints and falls through to the return
SystemNotFound(q) ==
    [sim_params |-> q.sim_params, soln |-> q.soln, prob_dens |-> q.prob_dens,
     exc |-> "none", out |-> "\nSystem not found. Please reinitialize object.\n",
     solver |-> {}, dispatcher |-> {}]

simulate(q, np) ==
    IF q.sys \in ISW THEN StoreSolution(q, InfSqWell(q, np))
    ELSE IF q.sys \in FSW THEN StoreFinSqWell(q)
    ELSE IF q.sys \in QHO THEN StoreSolution(q, ParabSqWell(q, np))
    ELSE SystemNotFound(q)

\* one call simulate(quantsim)
Simulate ==
    LET r == simulate([sys |-> sys, sim_params |-> sim_params,
                       soln |-> soln, prob_dens |-> prob_dens], numpy)
    IN  /\ sim_params' = r.sim_params
        /\ soln' = r.soln
        /\ prob_dens' = r.prob_dens
        /\ outcome' = IF r.exc = "none" THEN "returned" ELSE r.exc
        /\ stdout' = r.out
        /\ wrote' = [solver |-> r.solver, dispatcher |-> r.dispatcher]
        /\ origin' = LET W == (r.solver \cup r.dispatcher) \cap ResultFields
                      IN  [f \in ResultFields |->
                             IF W = {} \/ (origin[f] = "never" /\ f \notin W) THEN origin[f]
                             ELSE IF f \in W THEN "last" ELSE "earlier"]
        /\ UNCHANGED <<numpy, sys>>

\* the caller assigns quantsim.sys
SetSys ==
    /\ \E s \in Systems : sys' = s
    /\ outcome' = "pending"
    /\ stdout' = ""
    /\ wrote' = [solver |-> {}, dispatcher |-> {}]
    /\ UNCHANGED <<numpy, sim_params, soln, prob_dens, origin>>

\* the caller assigns quantsim.sim_params['length'], ['dx'] or ['num_modes']
SetParam ==
    /\ \/ \E L \in 1..MaxSessLength : sim_params' = [sim_params EXCEPT !.length = L]
       \/ \E dx \in 0..MaxSessDx : sim_params' = [sim_params EXCEPT !.dx = dx]
       \/ \E nm \in 0..MaxSessModes : sim_params' = [sim_params EXCEPT !.num_modes = nm]
    /\ outcome' = "pending"
    /\ stdout' = ""
    /\ wrote' = [solver |-> {}, dispatcher |-> {}]
    /\ UNCHANGED <<numpy, sys, soln, prob_dens, origin>>

\* one object, re-dispatched by its caller any number of times
Init == InitWith(1..MaxSessLength, {1}, 0..MaxSessDx, {1}, 0..MaxSessModes)

Next == SetSys \/ SetParam \/ Simulate

Spec == Init /\ [][Next]_vars

\* one dispatch on a fresh object, over all the inputs explored
InitSolve ==
    InitWith((0 - 1)..MaxLength, (0 - 1)..MaxMass, (0 - 1)..MaxDx, (0 - 1)..MaxK,
             (0 - 1)..MaxModes)

NextSolve == Simulate

SpecSolve == InitSolve /\ [][NextSolve]_vars

----------------------------------------------------------------------------
(* properties *)

\* the last simulate call is over (the parameters in the state are its inputs)
Called == outcome # "pending"

\* the last simulate call returned to its caller
Returned == outcome = "returned"

L_in == sim_params.length

m_in == sim_params.mass

dx_in == sim_params.dx

k_in == sim_params.force_constant_k

nm_in == sim_params.num_modes

\* a - b for finite a, b
RatSub(a, b) == Rat(a[1] * b[2] - b[1] * a[2], a[2] * b[2])

\* C1 (as claimed): a call with an identifier in none of the alias lists ends in
\* an UnknownSystem error, which the caller can tell from a successful solve.
C1_UnknownSystemSignalled ==
    (Called /\ sys \in Unknown) => outcome = "UnknownSystem"

\* C2: a call with an identifier in none of the alias lists leaves sim_params
\* (so x_vals and E_array), soln and prob_dens exactly as they were, absent
\* where they were absent.
C2_UnknownLeavesContext ==
    [][(sys \in Unknown /\ outcome' # "pending")
         => (sim_params' = sim_params /\ soln' = soln /\ prob_dens' = prob_dens)]_vars

\* C2 witness: an unknown identifier was dispatched on an object that holds the
\* results of an earlier solve, and they are still there.
C2_Witness ==
    /\ Called /\ sys \in Unknown
    /\ soln.st = "set" /\ prob_dens.st = "set"
    /\ sim_params.x_vals.st = "set" /\ sim_params.E_array.st = "set"
    /\ Len(soln.v) > 0

\* C3 (as claimed): a call with a finite-square-well alias ends in an
\* UnsupportedSystem error and assigns nothing on the object.
C3_FiniteWellUnsupported ==
    (Called /\ sys \in FSW)
      => (outcome = "UnsupportedSystem" /\ wrote.solver \cup wrote.dispatcher = {})

\* C4 (as claimed): a square-well call with num_modes < 1, or length, mass or dx
\* not positive, ends in an InvalidParameter error and assigns none of soln,
\* prob_dens, x_vals, E_array.
C4_InvalidParameterRejected ==
    (Called /\ sys \in ISW /\ (nm_in < 1 \/ L_in <= 0 \/ m_in <= 0 \/ dx_in <= 0))
      => (/\ outcome = "InvalidParameter"
          /\ (wrote.solver \cup wrote.dispatcher) \cap ResultFields = {})

\* C5: after a simulate call that returned, soln, prob_dens and E_array have the
\* same length: num_modes for a square-well alias (num_modes >= 1), num_modes + 1
\* for an oscillator alias (num_modes >= 0).
C5_ShapeInvariant ==
    /\ (Returned /\ sys \in ISW /\ nm_in >= 1)
         => (/\ Len(soln.v) = nm_in
             /\ Len(prob_dens.v) = nm_in
             /\ Len(sim_params.E_array.v) = nm_in)
    /\ (Returned /\ sys \in QHO /\ nm_in >= 0)
         => (/\ Len(soln.v) = nm_in + 1
             /\ Len(prob_dens.v) = nm_in + 1
             /\ Len(sim_params.E_array.v) = nm_in + 1)

\* C5 witness: an oscillator solve for the largest num_modes explored returned
\* num_modes + 1 modes.
C5_Witness ==
    /\ Returned /\ sys \in QHO /\ nm_in = MaxModes
    /\ Len(soln.v) = MaxModes + 1

grid == sim_params.x_vals.v

StrictlyIncreasing(xs) ==
    \A i \in 1..(Len(xs) - 1) : RatLess(xs[i], xs[i + 1])

SquareWellSolved ==
    Returned /\ sys \in ISW /\ L_in > 0 /\ dx_in > 0

energies == sim_params.E_array.v

\* C8: after a square-well solve (mass > 0, length > 0) or an oscillator solve
\* (mass > 0, force constant > 0) that returned, E_array is strictly increasing
\* in the mode index.
C8_EnergyOrdering ==
    (Returned /\ m_in > 0
       /\ ((sys \in ISW /\ L_in > 0) \/ (sys \in QHO /\ k_in > 0)))
      => \A i, j \in 1..Len(energies) : i < j => RatLess(energies[i], energies[j])

\* C8 witness: an oscillator solve with valid parameters returned at least three
\* energy levels.
C8_Witness ==
    /\ Returned /\ sys \in QHO /\ m_in > 0 /\ k_in > 0
    /\ Len(energies) >= 3

\* C9: after a solve with valid parameters that returned, entry i (from 0) of
\* soln, prob_dens and E_array belongs to mode n = i + 1 for the square well and
\* n = i for the oscillator, and prob_dens[i] is the elementwise square of
\* soln[i].  (Sequences are indexed from 1 here: entry i is index idx = i + 1.)
C9_IndexAligned ==
    /\ (Returned /\ sys \in ISW /\ L_in > 0 /\ m_in > 0 /\ dx_in > 0)
         => \A idx \in 1..Len(soln.v) :
              LET n == idx
              IN  /\ Len(soln.v[idx]) = Len(grid)
                  /\ \A j \in 1..Len(grid) :
                       /\ soln.v[idx][j].f = "sqrt(L/2)*sin(pi*t)"
                       /\ soln.v[idx][j].t = Rat(n * grid[j][1], L_in * grid[j][2])
                       /\ prob_dens.v[idx][j] = [sq |-> soln.v[idx][j]]
                  /\ energies[idx] = Rat(n * n * hbar * hbar, 2 * m_in * L_in * L_in)
    /\ (Returned /\ sys \in QHO /\ L_in > 0 /\ m_in > 0 /\ k_in > 0 /\ dx_in > 0)
         => \A idx \in 1..Len(soln.v) :
              LET n == idx - 1
              IN  /\ Len(soln.v[idx]) = Len(grid)
                  /\ \A j \in 1..Len(grid) :
                       /\ soln.v[idx][j].c = <<n, m_in, k_in>>
                       /\ soln.v[idx][j].t = grid[j]
                       /\ prob_dens.v[idx][j] = [sq |-> soln.v[idx][j]]
                  /\ energies[idx] = Rat((2 * n + 1) * hbar, 2)

\* C9 witness: a square-well solve returned several modes on a grid with
\* interior points, where the modes differ.
C9_Witness ==
    /\ Returned /\ sys \in ISW /\ L_in > 0 /\ m_in > 0 /\ dx_in > 0
    /\ Len(soln.v) >= 2 /\ Len(grid) >= 3
    /\ soln.v[1] # soln.v[2]

\* C10 (as claimed): after any sequence of calls, soln, prob_dens, x_vals and
\* E_array all come from the same simulate call: none is left over from a call
\* earlier than the one that last assigned a result.
C10_ResultsFromOneCall ==
    \A f \in ResultFields : origin[f] # "earlier"

====
